---------------------------- MODULE Spec2Model ----------------------------
(***************************************************************************)
(* A model of src/main.py (class IranNewsRadar): the fuzzy near-duplicate  *)
(* detector, the batch filter and the concurrent enrichment stage of run(),*)
(* the save-time merge of the corpus file, and the digest chunking of      *)
(* send_digest_to_telegram.                                                *)
(*                                                                         *)
(* Text is modelled as a sequence of raw words; the word "-" stands for    *)
(* the separator " - " that feeds put in front of the publisher's name.    *)
(***************************************************************************)
EXTENDS Integers, Sequences, FiniteSets, TLC

VARIABLES
    \* ---- the run (IranNewsRadar.__init__ and run) ----
    pc,                   \* position of the main thread in run()
    api_key,              \* self.api_key is set (CONFIG['POLLINATIONS_KEY'])
    file,                 \* content of news.json
    existing_news,        \* self.existing_news
    seen_urls,            \* self.seen_urls
    seen_titles,          \* self.seen_titles
    results,              \* results of get_combined_news()
    unique_batch_results, \* the candidates kept by the batch filter
    futures,              \* one record per submitted process_item call
    new_items,            \* new_items of run()
    digest,               \* the list handed to send_digest_to_telegram
    all_news,             \* all_news of run(): the corpus re-read at save time
    written,              \* run() has written news.json
    ext_log,              \* articles another writer put in news.json, with the phase
    \* ---- _is_duplicate_fuzzy applied to drawn inputs ----
    fz_title,             \* new_title
    fz_pool,              \* comparison_pool
    fz_out,               \* the value returned ("none" before the call)
    \* ---- the save-time merge applied to drawn inputs ----
    mg_disk,              \* the corpus on disk
    mg_new,               \* the newly accepted articles
    mg_hist,              \* the corpora written so far, oldest first
    \* ---- the chunking loop of send_digest_to_telegram ----
    ck_header,            \* len(header)
    ck_items,             \* len(item_html) of each item, in input order
    ck_next,              \* index of the next item of the for loop
    current_chunk,        \* current_chunk: its length and the items in it
    messages_to_send,     \* messages_to_send
    ck_pc,                \* "loop", "flush" or "done"
    \* ---- the urgency coercion of process_item ----
    ur_payload,           \* the 'urgency' entry of the analysis payload
    ur_out,               \* << >> before the step, then the one outcome
    \* ---- analyze_with_ai, and what process_item does with its result ----
    ai_pc,                \* "entry", "loop", "returned", "raised"
    ai_in,                \* the arguments and self.api_key: which are set
    attempt,              \* attempt of the for loop
    ai_log,               \* the calls to the backend and the sleeps, in order
    ai_ret,               \* "pending", "data" or "None"
    pi_out,               \* process_item: "pending", "record", "dropped", "raised"
    \* ---- the send loop of send_digest_to_telegram ----
    sd_cfg,               \* token and chat_id are configured
    sd_next,              \* index of the next message of the send loop
    sd_log                \* the posts made: message index and what the post gave

vars == << pc, api_key, file, existing_news, seen_urls, seen_titles, results,
           unique_batch_results, futures, new_items, digest, all_news, written,
           ext_log, fz_title, fz_pool, fz_out, mg_disk, mg_new, mg_hist,
           ck_header, ck_items, ck_next, current_chunk, messages_to_send, ck_pc,
           ur_payload, ur_out, ai_pc, ai_in, attempt, ai_log, ai_ret, pi_out,
           sd_cfg, sd_next, sd_log >>

runVars   == << pc, api_key, file, existing_news, seen_urls, seen_titles, results,
                unique_batch_results, futures, new_items, digest, all_news,
                written, ext_log >>
fuzzyVars == << fz_title, fz_pool, fz_out >>
mergeVars == << mg_disk, mg_new, mg_hist >>
chunkVars == << ck_header, ck_items, ck_next, current_chunk, messages_to_send, ck_pc >>
urgencyVars == << ur_payload, ur_out >>
\* the variables of the single steps modelled on their own
retryVars == << ai_pc, ai_in, attempt, ai_log, ai_ret, pi_out >>
sendVars  == << sd_cfg, sd_next, sd_log >>
stepVars  == << urgencyVars, retryVars, sendVars >>

NULL == "null"

(***************************************************************************)
(* Bounds of the model.                                                    *)
(***************************************************************************)
\* The cap of the corpus file. The code truncates to 100 articles
\* (all_news[:100]); the model scales the cap down so that truncation happens.
CorpusCap == 2
\* Longest candidate batch returned by get_combined_news().
MaxBatch == 3
\* Number of writes of news.json by another process during one run.
MaxExternal == 1
\* Longest comparison pool handed to _is_duplicate_fuzzy.
MaxPool == 2
\* Longest list of newly accepted articles handed to the merge.
MaxNew == 2
\* Largest magnitude of an integer urgency in an analysis payload.
MaxUrgency == 12
\* Number of times the merge is applied to its own output.
MaxMerges == 2
\* Longest list of items handed to send_digest_to_telegram.
MaxItems == 3

(***************************************************************************)
(* Program constants.                                                      *)
(***************************************************************************)
MAX_WORKERS == 4
\* CONFIG['AI_RETRIES']
AI_RETRIES == 3
\* similarity > 0.35, as the fraction SimNum / SimDen
SimNum == 35
SimDen == 100
\* len(intersection) >= 4
MinShared == 4
\* the budget of one digest message
DigestBudget == 3900
\* len(footer)
FooterLen == 93
\* time.time(), the timestamp of a candidate whose date does not parse
NowTs == 5
\* the urgency of a record whose payload urgency does not convert
FallbackUrgency == 3

(***************************************************************************)
(* Sequences.                                                              *)
(***************************************************************************)
Range(s) == { s[i] : i \in DOMAIN s }

Take(s, n) == SubSeq(s, 1, IF n < Len(s) THEN n ELSE Len(s))

\* All sequences over S of length at most n.
SeqsUpTo(S, n) == UNION { [1..k -> S] : k \in 0..n }

\* list.sort(key=lambda x: x[k], reverse=True): Python's sort is stable, and
\* with reverse=True elements with equal keys keep their original order.
\* an insertion that puts x before the elements with an equal key
RECURSIVE InsertDescBeforeTies(_, _, _)
InsertDescBeforeTies(x, s, k) ==
    IF s = << >> THEN << x >>
    ELSE IF x[k] >= Head(s)[k] THEN << x >> \o s
         ELSE << Head(s) >> \o InsertDescBeforeTies(x, Tail(s), k)

RECURSIVE InsertDesc(_, _, _)
InsertDesc(x, s, k) ==
    IF s = << >> THEN << x >>
    ELSE IF x[k] > Head(s)[k] THEN << x >> \o s
         ELSE << Head(s) >> \o InsertDesc(x, Tail(s), k)

RECURSIVE SortDesc(_, _)
SortDesc(s, k) ==
    IF s = << >> THEN << >>
    ELSE InsertDesc(s[Len(s)], SortDesc(SubSeq(s, 1, Len(s) - 1), k), k)

IsSortedDesc(s, k) == \A i \in 1..(Len(s) - 1) : s[i][k] >= s[i + 1][k]

(***************************************************************************)
(* Text: _normalize_text, _get_tokens, and the suffix split of run() and   *)
(* process_item.                                                           *)
(***************************************************************************)
\* One raw word lower-cased and with its punctuation removed, the effect of
\* text.lower() and of re.sub on that word. The separator "-" is punctuation.
CleanWord(w) ==
    CASE w = "-"       -> ""
      [] w = "Iran"    -> "iran"
      [] w = "The"     -> "the"
      [] w = "strike," -> "strike"
      [] w = "Strike!" -> "strike"
      [] w = "BBC"     -> "bbc"
      [] w = "CNN"     -> "cnn"
      [] OTHER         -> w

RECURSIVE ConcatClean(_)
ConcatClean(text) ==
    IF text = << >> THEN "" ELSE CleanWord(Head(text)) \o ConcatClean(Tail(text))

\* _normalize_text: re.sub(r'\W+', '', text).lower()
NormalizeText(text) == ConcatClean(text)

stop_words == { "a", "an", "the", "and", "or", "in", "on", "at", "to", "for",
                "of", "with", "by", "is", "are", "was", "news", "report" }

\* the words of a title without the removal of stop words
GetTokensKeepStop(text) ==
    { CleanWord(text[i]) : i \in DOMAIN text } \ { "" }

\* _get_tokens: lower-case, drop punctuation, split on whitespace, drop stop words
GetTokens(text) ==
    ({ CleanWord(text[i]) : i \in DOMAIN text } \ { "" }) \ stop_words

\* title.rsplit(' - ', 1)[0]: the text before the last separator
LastSep(text) ==
    LET S == { i \in DOMAIN text : text[i] = "-" }
    IN  IF S = {} THEN 0 ELSE CHOOSE i \in S : \A j \in S : j <= i

StripSuffix(text) ==
    IF LastSep(text) = 0 THEN text ELSE SubSeq(text, 1, LastSep(text) - 1)

(***************************************************************************)
(* _is_duplicate_fuzzy                                                     *)
(***************************************************************************)
\* item.get('title', item.get('title_en', ''))
ExistingTitle(item) ==
    IF "title" \in DOMAIN item THEN item.title
    ELSE IF "title_en" \in DOMAIN item THEN item.title_en
    ELSE << >>

\* the same test without the count clause
SimilarTokensNoCount(new_tokens, existing_tokens) ==
    LET intersection == new_tokens \cap existing_tokens
        union        == new_tokens \cup existing_tokens
    IN  Cardinality(intersection) * SimDen > SimNum * Cardinality(union)

\* similarity > 0.35 or len(intersection) >= 4, for one pool entry
SimilarTokens(new_tokens, existing_tokens) ==
    LET intersection == new_tokens \cap existing_tokens
        union        == new_tokens \cup existing_tokens
    IN  \/ Cardinality(intersection) * SimDen > SimNum * Cardinality(union)
        \/ Cardinality(intersection) >= MinShared

\* the for loop over comparison_pool, from entry i on
RECURSIVE FuzzyLoop(_, _, _)
FuzzyLoop(new_tokens, pool, i) ==
    IF i > Len(pool) THEN FALSE
    ELSE LET existing_tokens == GetTokens(ExistingTitle(pool[i]))
         IN  IF existing_tokens = {} THEN FuzzyLoop(new_tokens, pool, i + 1)
             ELSE IF SimilarTokens(new_tokens, existing_tokens) THEN TRUE
             ELSE FuzzyLoop(new_tokens, pool, i + 1)

IsDuplicateFuzzy(new_title, comparison_pool) ==
    LET new_tokens == GetTokens(new_title)
    IN  IF new_tokens = {} THEN FALSE
        ELSE FuzzyLoop(new_tokens, comparison_pool, 1)

(***************************************************************************)
(* The save-time merge of run(): re-read corpus, append, sort, truncate.   *)
(***************************************************************************)
\* the merge that appends every new article, with no look at the urls on disk
SaveMergeAppendAll(disk, new) ==
    Take(SortDesc(disk \o new, "timestamp"), CorpusCap)

\* the merge without its sort
SaveMergeNoSort(disk, new) ==
    LET existing_urls_file == { disk[i].url : i \in DOMAIN disk }
        NotOnDisk(ni) == ni.url \notin existing_urls_file
    IN  Take(disk \o SelectSeq(new, NotOnDisk), CorpusCap)

\* all_news after lines 464-469: the new articles whose url is not on disk
\* appended to the corpus read from disk, sorted by descending timestamp
AppendAndSort(disk, new) ==
    LET existing_urls_file == { disk[i].url : i \in DOMAIN disk }
        NotOnDisk(ni) == ni.url \notin existing_urls_file
    IN  SortDesc(disk \o SelectSeq(new, NotOnDisk), "timestamp")

\* what line 471 writes: all_news[:100], with the cap of the model
SaveMerge(disk, new) == Take(AppendAndSort(disk, new), CorpusCap)

\* a save that starts from the corpus held in memory since the run began
CorpusAtSaveFromMemory(on_disk, in_memory) == in_memory

\* the corpus the save starts from: all_news = self._load_existing_news(),
\* the file as it is now, not self.existing_news
CorpusAtSave(on_disk, in_memory) == on_disk

(***************************************************************************)
(* The chunking loop of send_digest_to_telegram.                           *)
(***************************************************************************)
\* current_chunk + footer
CloseChunk(chunk) == [len |-> chunk.len + FooterLen, blocks |-> chunk.blocks]

\* an iteration that starts the new chunk from the header alone
PackItemDropsItem(chunk, msgs, idx, n, header) ==
    IF chunk.len + n + FooterLen > DigestBudget
    THEN [chunk |-> [len |-> header, blocks |-> << >>],
          msgs  |-> Append(msgs, CloseChunk(chunk))]
    ELSE [chunk |-> [len |-> chunk.len + n, blocks |-> Append(chunk.blocks, idx)],
          msgs  |-> msgs]

\* one iteration of the for loop (lines 411-415) for item idx, whose
\* item_html has length n
PackItem(chunk, msgs, idx, n, header) ==
    IF chunk.len + n + FooterLen > DigestBudget
    THEN [chunk |-> [len |-> header + n, blocks |-> << idx >>],
          msgs  |-> Append(msgs, CloseChunk(chunk))]
    ELSE [chunk |-> [len |-> chunk.len + n, blocks |-> Append(chunk.blocks, idx)],
          msgs  |-> msgs]


(***************************************************************************)
(* The parts of the state a specification leaves alone.                    *)
(***************************************************************************)
RunIdle ==
    /\ pc = "idle" /\ api_key = FALSE /\ file = << >> /\ existing_news = << >>
    /\ seen_urls = {} /\ seen_titles = {} /\ results = << >>
    /\ unique_batch_results = << >> /\ futures = << >> /\ new_items = << >>
    /\ digest = << >> /\ all_news = << >> /\ written = FALSE /\ ext_log = << >>

FuzzyIdle == fz_title = << >> /\ fz_pool = << >> /\ fz_out = "idle"

MergeIdle == mg_disk = << >> /\ mg_new = << >> /\ mg_hist = << >>

ChunkIdle ==
    /\ ck_header = 0 /\ ck_items = << >> /\ ck_next = 0
    /\ current_chunk = [len |-> 0, blocks |-> << >>]
    /\ messages_to_send = << >> /\ ck_pc = "idle"

UrgencyIdle == ur_payload = [kind |-> "idle"] /\ ur_out = << >>

RetryIdle ==
    /\ ai_pc = "idle" /\ ai_in = [key |-> FALSE, text |-> FALSE, source |-> FALSE]
    /\ attempt = 0 /\ ai_log = << >> /\ ai_ret = "pending" /\ pi_out = "pending"

SendIdle == sd_cfg = FALSE /\ sd_next = 0 /\ sd_log = << >>

StepIdle == UrgencyIdle /\ RetryIdle /\ SendIdle

(***************************************************************************)
(* SpecFuzzy: _is_duplicate_fuzzy called on drawn titles and pools.        *)
(***************************************************************************)
RawVocab == << "Iran", "strike,", "hits", "port", "city", "refinery",
               "depot", "rial", "falls", "oil", "talks", "envoy" >>

Window(b, e) == SubSeq(RawVocab, b, e)

\* new titles: the first n words, bare or behind stop words
FzNewTitles ==
    { Window(1, n) : n \in 0..8 }
        \cup { << "The", "news" >> \o Window(1, n) : n \in {0, 1, 3} }
        \cup { Window(1, 4) \o << "-", "BBC" >> }
        \cup { << "update" >>, << "update", "Iran" >> }

\* pool titles: runs of the vocabulary from word 1 or word 5, stop words only,
\* and the empty title
FzPoolTitles ==
    { Window(b, e) : b \in {1, 5}, e \in 0..Len(RawVocab) }
        \cup { << "the", "report" >>, << "the", "news", "oil" >>,
               << "update", "oil" >> }

\* pool entries: stored articles (title_en), candidates (title), and an
\* entry with neither key
FzPoolItems ==
    { [title_en |-> t] : t \in FzPoolTitles }
        \cup { [title |-> Window(1, 3), title_en |-> Window(5, 9)],
               [url |-> "u1"] }

InitFuzzy ==
    /\ RunIdle /\ MergeIdle /\ ChunkIdle /\ StepIdle
    /\ fz_title \in FzNewTitles
    /\ fz_pool \in SeqsUpTo(FzPoolItems, MaxPool)
    /\ fz_out = "none"

FzCall ==
    /\ fz_out = "none"
    /\ fz_out' = IF IsDuplicateFuzzy(fz_title, fz_pool) THEN "true" ELSE "false"
    /\ UNCHANGED << fz_title, fz_pool, runVars, mergeVars, chunkVars,
                    stepVars >>

NextFuzzy == FzCall

SpecFuzzy == InitFuzzy /\ [][NextFuzzy]_vars

(***************************************************************************)
(* SpecMerge: the save-time merge applied to drawn corpora and batches,    *)
(* and again to its own output.                                            *)
(***************************************************************************)
MgUrls == { "u1", "u2", "u3" }
MgStamps == 1..3

\* an article as process_item builds it (the fields the merge reads vary)
MgArticle(u, ts) ==
    [url |-> u, title_en |-> << "story" >>, timestamp |-> ts, urgency |-> 3]

MgArticles == { MgArticle(u, ts) : u \in MgUrls, ts \in MgStamps }

\* a corpus as the merge writes it: sorted, within the cap
MgCorpora ==
    { c \in SeqsUpTo(MgArticles, CorpusCap) : IsSortedDesc(c, "timestamp") }

InitMerge ==
    /\ RunIdle /\ FuzzyIdle /\ ChunkIdle /\ StepIdle
    /\ mg_disk \in MgCorpora
    /\ mg_new \in SeqsUpTo(MgArticles, MaxNew)
    /\ mg_hist = << mg_disk >>

\* all_news = load; append; sort; dump(all_news[:cap])
MergeStep ==
    /\ mg_hist # << >>
    /\ Len(mg_hist) <= MaxMerges
    /\ mg_disk' = SaveMerge(mg_disk, mg_new)
    /\ mg_hist' = Append(mg_hist, mg_disk')
    /\ UNCHANGED << mg_new, runVars, fuzzyVars, chunkVars, stepVars >>

NextMerge == MergeStep

SpecMerge == InitMerge /\ [][NextMerge]_vars

(***************************************************************************)
(* SpecChunk: the chunking loop on drawn lists of item blocks.             *)
(***************************************************************************)
\* len(header): without the market line, and with it
HeaderLens == { 57, 103 }

\* len(item_html): the shortest block, a block that fills half a message,
\* one that fits a message alone, one that fits no message
ItemSizes == { 96, 1900, 3700, 3900 }

InitChunk ==
    /\ RunIdle /\ FuzzyIdle /\ MergeIdle /\ StepIdle
    /\ ck_header \in HeaderLens
    /\ ck_items \in SeqsUpTo(ItemSizes, MaxItems)
    /\ ck_next = 1
    /\ current_chunk = [len |-> ck_header, blocks |-> << >>]
    /\ messages_to_send = << >>
    /\ ck_pc = "loop"

\* one iteration of "for item in items"
ChunkItem ==
    /\ ck_pc = "loop"
    /\ ck_next <= Len(ck_items)
    /\ LET r == PackItem(current_chunk, messages_to_send, ck_next,
                         ck_items[ck_next], ck_header)
       IN  /\ current_chunk' = r.chunk
           /\ messages_to_send' = r.msgs
    /\ ck_next' = ck_next + 1
    /\ UNCHANGED << ck_header, ck_items, ck_pc, runVars, fuzzyVars, mergeVars, stepVars >>

\* after the loop: "if current_chunk != header". Every chunk starts with the
\* header, so it differs from the header exactly when it is longer.
ChunkFlush ==
    /\ ck_pc = "loop"
    /\ ck_next > Len(ck_items)
    /\ messages_to_send' =
          IF current_chunk.len # ck_header
          THEN Append(messages_to_send, CloseChunk(current_chunk))
          ELSE messages_to_send
    /\ ck_pc' = "done"
    /\ UNCHANGED << ck_header, ck_items, ck_next, current_chunk,
                    runVars, fuzzyVars, mergeVars, stepVars >>

NextChunk == ChunkItem \/ ChunkFlush

SpecChunk == InitChunk /\ [][NextChunk]_vars

(***************************************************************************)
(* Claims about _is_duplicate_fuzzy (SpecFuzzy).                           *)
(***************************************************************************)
\* C10: _is_duplicate_fuzzy(title, pool) returns true exactly when
\* tokens(title) is not empty and some pool entry has a non-empty token set T
\* with |tokens(title) /\ T| / |tokens(title) \/ T| > 0.35 or at least 4 shared
\* tokens; it is false for every pool when tokens(title) is empty, and a ratio
\* of exactly 0.35 (7/20) with fewer than 4 shared tokens is no duplicate.
C10_DuplicateRule ==
    fz_out \in { "true", "false" } =>
        LET A == GetTokens(fz_title)
            T(i) == GetTokens(ExistingTitle(fz_pool[i]))
            Shared(i) == Cardinality(A \cap T(i))
            All(i) == Cardinality(A \cup T(i))
            Hit(i) == /\ T(i) # {}
                      /\ \/ 100 * Shared(i) > 35 * All(i)
                         \/ Shared(i) >= 4
        IN  /\ (fz_out = "true") <=> (A # {} /\ \E i \in DOMAIN fz_pool : Hit(i))
            /\ (A = {} => fz_out = "false")
            /\ (/\ \A i \in DOMAIN fz_pool :
                      20 * Shared(i) = 7 * All(i) /\ Shared(i) < 4
                /\ fz_pool # << >>) => fz_out = "false"

\* C10 witness: the call returned true for a pool whose first entry has no
\* tokens and whose second shares exactly 4 tokens at a ratio of at most 0.35.
C10_Witness ==
    /\ fz_out = "true"
    /\ Len(fz_pool) = 2
    /\ GetTokens(ExistingTitle(fz_pool[1])) = {}
    /\ LET A == GetTokens(fz_title)
           B == GetTokens(ExistingTitle(fz_pool[2]))
       IN  /\ Cardinality(A \cap B) = 4
           /\ 100 * Cardinality(A \cap B) <= 35 * Cardinality(A \cup B)

(***************************************************************************)
(* Claims about the save-time merge (SpecMerge). mg_hist[1] is the corpus  *)
(* on disk, mg_hist[2] the corpus after one merge of mg_new, mg_hist[3]    *)
(* the corpus after a second merge of mg_new.                              *)
(***************************************************************************)
UrlsOf(s) == { s[i].url : i \in DOMAIN s }

UniqueUrls(s) == \A i, j \in DOMAIN s : s[i].url = s[j].url => i = j

Count(s, a) == Cardinality({ i \in DOMAIN s : s[i] = a })

\* C4 as claimed: for every corpus and every batch, merging the batch into
\* the result of a merge of that batch changes nothing.
C4_MergeIdempotentAsClaimed ==
    \A k \in 3..Len(mg_hist) : mg_hist[k] = mg_hist[2]

\* C4 amended: merging the batch again changes nothing, provided the first
\* merge left in the corpus every url that the batch shares with the corpus
\* on disk (always so when the batch shares no url with the corpus on disk).
C4_MergeIdempotent ==
    (\A i \in DOMAIN mg_new :
        mg_new[i].url \in UrlsOf(mg_hist[1]) =>
            (Len(mg_hist) >= 2 => mg_new[i].url \in UrlsOf(mg_hist[2])))
        => \A k \in 3..Len(mg_hist) : mg_hist[k] = mg_hist[2]

\* C4 witness: a second merge has run after a first one that both appended a
\* new article and displaced another new article whose url is not in the
\* written corpus.
C4_Witness ==
    /\ Len(mg_hist) >= 3
    /\ \E i \in DOMAIN mg_new :
          /\ mg_new[i].url \notin UrlsOf(mg_hist[1])
          /\ mg_new[i] \in Range(mg_hist[2])
    /\ \E j \in DOMAIN mg_new : mg_new[j].url \notin UrlsOf(mg_hist[2])

\* the articles the merge chooses from: the corpus on disk, then the new
\* articles whose url is not on disk
MergePool(disk, new) ==
    LET NotOnDisk(ni) == ni.url \notin UrlsOf(disk)
    IN  disk \o SelectSeq(new, NotOnDisk)

\* r holds the most recent articles of pool: as many as the cap allows, each
\* one of pool, in descending order, none older than an article left out
MostRecentOf(r, pool) ==
    /\ Len(r) = (IF Len(pool) < CorpusCap THEN Len(pool) ELSE CorpusCap)
    /\ IsSortedDesc(r, "timestamp")
    /\ \A a \in Range(r) : Count(r, a) <= Count(pool, a)
    /\ \A a \in Range(pool) :
          Count(r, a) < Count(pool, a) =>
              \A i \in DOMAIN r : a.timestamp <= r[i].timestamp

\* r is disk with one of its oldest articles replaced by article n
ReplacesAnOldest(r, disk, n) ==
    \E j \in DOMAIN disk :
        /\ \A i \in DOMAIN disk : disk[j].timestamp <= disk[i].timestamp
        /\ \A a \in Range(r) \cup Range(disk) \cup { n } :
              Count(r, a) = Count(disk, a)
                              - (IF a = disk[j] THEN 1 ELSE 0)
                              + (IF a = n THEN 1 ELSE 0)

RECURSIVE FlattenBlocks(_)
FlattenBlocks(msgs) ==
    IF msgs = << >> THEN << >>
    ELSE Head(msgs).blocks \o FlattenBlocks(Tail(msgs))

\* C6: every message put in messages_to_send is at most 3900 long.
C6_ChunkWithinBudget ==
    \A i \in DOMAIN messages_to_send : messages_to_send[i].len <= 3900

\* C7: the item blocks of the emitted messages, in emission order, are the
\* input items in input order, each exactly once; during the loop the
\* messages and the open chunk together hold the items taken so far.
C7_ChunkOrderPreserved ==
    /\ ck_pc = "loop" =>
          FlattenBlocks(messages_to_send) \o current_chunk.blocks
              = [i \in 1..(ck_next - 1) |-> i]
    /\ ck_pc = "done" =>
          FlattenBlocks(messages_to_send) = [i \in 1..Len(ck_items) |-> i]

\* C7 witness: the loop is over, it emitted at least two messages, and one
\* of them holds at least two items.
C7_Witness ==
    /\ ck_pc = "done"
    /\ Len(messages_to_send) >= 2
    /\ \E i \in DOMAIN messages_to_send : Len(messages_to_send[i].blocks) >= 2

(***************************************************************************)
(* Spec: one run of the pipeline, IranNewsRadar().run(), with another      *)
(* process that may write news.json meanwhile.                             *)
(***************************************************************************)
TitleA  == << "Iran", "strike,", "hits", "port", "city", "refinery" >>
\* five tokens shared with TitleA, behind a publisher suffix
TitleA2 == << "Iran", "strike,", "hits", "port", "city", "depot", "-", "BBC" >>
\* TitleA written differently: another string, the same normalized title
TitleA3 == << "iran", "Strike!", "hits", "port", "city", "refinery" >>
\* TitleA with a publisher suffix: the same string once the suffix is gone
TitleA4 == TitleA \o << "-", "CNN" >>
TitleB  == << "rial", "falls" >>
TitleE  == << "oil", "talks" >>

\* A candidate as the source connectors build it. publisher and description
\* may be None (NULL); date holds the timestamp the published date parses to,
\* or nothing when it is None or does not parse. urgency is the urgency the
\* analysis backend gives the article when it answers.
Candidate(t, u, p, d, dt, urg) ==
    [title |-> t, url |-> u, publisher |-> p, description |-> d,
     date |-> dt, urgency |-> urg]

\* the candidates the sources hold
CandA  == Candidate(TitleA,  "u1", "BBC",     "d",  << 3 >>, 8)
CandA2 == Candidate(TitleA2, "u2", "BBC",     "d",  << 2 >>, 3)
CandB  == Candidate(TitleB,  "u1", "Reuters", NULL, << 1 >>, 3)
CandA3 == Candidate(TitleA3, "g1", "AP",      "d",  << 3 >>, 8)
CandE  == Candidate(TitleE,  "u5", NULL,      "d",  << >>,   3)
CandA4 == Candidate(TitleA4, "u6", "CNN",     "d",  << 2 >>, 8)

\* get_combined_news() concatenates what its sources return, source by
\* source (lines 201-216): the candidates in the order of the sources that
\* hold them, for two assignments of candidates to sources. The position of
\* a candidate matters to the batch filter only, which keeps the first of
\* CandA and CandA4 (one title once the suffix is gone).
Feeds ==
    { << CandA, CandA2, CandB, CandA3, CandE, CandA4 >>,
      << CandA4, CandA2, CandB, CandA3, CandE, CandA >> }

\* the entries of feed f at the positions S, in the order of f
Pick(f, S) ==
    [k \in 1..Cardinality(S) |->
        f[CHOOSE p \in S : Cardinality({ q \in S : q <= p }) = k]]

\* results of get_combined_news(): what the sources return of a feed
Batches ==
    { Pick(f, S) : f \in Feeds,
                   S \in { T \in SUBSET (1..6) : Cardinality(T) <= MaxBatch } }

\* an article as process_item returns it and news.json stores it
Article(u, t, ts, urg) ==
    [url |-> u, title_en |-> t, timestamp |-> ts, urgency |-> urg]

\* articles of earlier runs: one with the url of a candidate, one whose
\* title is a fuzzy duplicate of a candidate's
OldArticles ==
    { Article("u2", << "old", "story" >>, 1, 3),
      Article("u8", << "rial", "falls", "again" >>, 2, 3) }

\* news.json when the run starts: written by an earlier run of a single
\* writer, so sorted, within the cap, one article per url
InitialFiles ==
    { c \in SeqsUpTo(OldArticles, CorpusCap) :
        /\ IsSortedDesc(c, "timestamp")
        /\ \A i, j \in DOMAIN c : c[i].url = c[j].url => i = j }

\* articles another process saves meanwhile
ExternalArticles ==
    { Article("u9", << "ext", "story" >>, 4, 3),
      Article("u1", << "other", "wire" >>, 0, 3) }

\* _resolve_final_url: a url outside news.google.com is returned as it is; a
\* redirect ("g1") gives the url it leads to, or itself when the request fails
ResolveFinalUrl(url) ==
    IF url = "g1" THEN { "u1", "g1" } ELSE { url }

\* the gate without its title test
PreDedupGateUrlOnly(final_url, raw_title) == final_url \in seen_urls

\* process_item, lines 307-308: the item is already known
PreDedupGate(final_url, raw_title) ==
    \/ final_url \in seen_urls
    \/ NormalizeText(raw_title) \in seen_titles

\* the record process_item returns (lines 318-338)
MakeItem(entry, final_url) ==
    Article(final_url, StripSuffix(entry.title),
            IF Len(entry.date) = 0 THEN NowTs ELSE entry.date[1],
            entry.urgency)

\* the batch filter of run(), lines 436-443, from candidate i on
RECURSIVE BatchFilter(_, _, _, _, _)
BatchFilter(items, pool, i, seen_batch, kept) ==
    IF i > Len(items) THEN kept
    ELSE LET t == StripSuffix(items[i].title)
         IN  IF IsDuplicateFuzzy(t, pool)
             THEN BatchFilter(items, pool, i + 1, seen_batch, kept)
             ELSE IF t \in seen_batch
             THEN BatchFilter(items, pool, i + 1, seen_batch, kept)
             ELSE BatchFilter(items, pool, i + 1, seen_batch \cup { t },
                              Append(kept, items[i]))

\* what the collection loop has registered in this run
RegisteredUrls == UrlsOf(new_items)
RegisteredTitles == { NormalizeText(new_items[i].title_en) : i \in DOMAIN new_items }
Registered(final_url, raw_title) ==
    \/ final_url \in RegisteredUrls
    \/ NormalizeText(raw_title) \in RegisteredTitles

\* __init__: the state after construction
Init ==
    /\ FuzzyIdle /\ MergeIdle /\ ChunkIdle /\ StepIdle
    /\ pc = "start"
    /\ api_key \in BOOLEAN
    /\ file \in InitialFiles
    /\ existing_news = file
    /\ seen_urls = { file[i].url : i \in DOMAIN file }
    /\ seen_titles = { NormalizeText(file[i].title_en) : i \in DOMAIN file }
    /\ results = << >>
    /\ unique_batch_results = << >>
    /\ futures = << >>
    /\ new_items = << >>
    /\ digest = << >>
    /\ all_news = << >>
    /\ written = FALSE
    /\ ext_log = << >>

\* results = self.get_combined_news()
Fetch ==
    /\ pc = "start"
    /\ results' \in Batches
    /\ pc' = "filter"
    /\ UNCHANGED << api_key, file, existing_news, seen_urls, seen_titles,
                    unique_batch_results, futures, new_items, digest, all_news,
                    written, ext_log, fuzzyVars, mergeVars, chunkVars,
                    stepVars >>

\* lines 436-449: the batch filter, then one process_item call submitted
\* per candidate kept
FilterAndSubmit ==
    /\ pc = "filter"
    /\ unique_batch_results' = BatchFilter(results, existing_news, 1, {}, << >>)
    /\ futures' = [i \in DOMAIN unique_batch_results' |->
                      [st |-> "queued", url |-> NULL, out |-> "none",
                       gate_reg |-> FALSE, late |-> FALSE, called |-> FALSE]]
    /\ pc' = "collect"
    /\ UNCHANGED << api_key, file, existing_news, seen_urls, seen_titles,
                    results, new_items, digest, all_news, written, ext_log,
                    fuzzyVars, mergeVars, chunkVars,
                    stepVars >>

Running == { i \in DOMAIN futures : futures[i].st = "running" }

\* a pool thread takes call i: process_item up to its gate (lines 300-308).
\* gate_reg records whether the collection loop had by then registered the
\* url or the title of the item.
WorkerStart(i) ==
    /\ pc = "collect"
    /\ futures[i].st = "queued"
    /\ Cardinality(Running) < MAX_WORKERS
    /\ \E final_url \in ResolveFinalUrl(unique_batch_results[i].url) :
          LET raw_title == StripSuffix(unique_batch_results[i].title)
              reg == Registered(final_url, raw_title)
          IN  futures' = [futures EXCEPT ![i] =
                 IF PreDedupGate(final_url, raw_title)
                 THEN [st |-> "finished", url |-> final_url, out |-> "none",
                       gate_reg |-> reg, late |-> FALSE, called |-> FALSE]
                 ELSE [st |-> "running", url |-> final_url, out |-> "none",
                       gate_reg |-> reg, late |-> FALSE, called |-> FALSE]]
    /\ UNCHANGED << pc, api_key, file, existing_news, seen_urls, seen_titles,
                    results, unique_batch_results, new_items, digest, all_news,
                    written, ext_log, fuzzyVars, mergeVars, chunkVars,
                    stepVars >>

\* the outcomes with a fallback record for a run without a key
EnrichOutcomesFallback(entry) ==
    LET texts == { "page", entry.description }
    IN  { IF ~api_key THEN [out |-> "item", called |-> FALSE]
          ELSE IF text = NULL THEN [out |-> "raise", called |-> FALSE]
          ELSE IF entry.publisher = NULL THEN [out |-> "raise", called |-> FALSE]
          ELSE [out |-> ai, called |-> TRUE]
          : text \in texts, ai \in { "item", "none" } }

\* the outcomes of lines 310-316 for a candidate: scrape_article_text gives
\* the page text or falls back to the snippet; analyze_with_ai returns None
\* without a key, raises on len(None) (line 243) or None.lower() (line 245),
\* and otherwise calls the backend, which answers or exhausts the attempts.
\* called: the backend was called
EnrichOutcomes(entry) ==
    LET texts == { "page", entry.description }
    IN  { IF ~api_key THEN [out |-> "none", called |-> FALSE]
          ELSE IF text = NULL THEN [out |-> "raise", called |-> FALSE]
          ELSE IF entry.publisher = NULL THEN [out |-> "raise", called |-> FALSE]
          ELSE [out |-> ai, called |-> TRUE]
          : text \in texts, ai \in { "item", "none" } }

\* a call that adds its own url to seen_urls when it returns a record
WorkerFinishRegisters(i) ==
    /\ pc = "collect"
    /\ futures[i].st = "running"
    /\ \E o \in EnrichOutcomes(unique_batch_results[i]) :
          /\ futures' = [futures EXCEPT ![i] =
                [@ EXCEPT !.st = "finished", !.out = o.out, !.called = o.called,
                          !.late = Registered(futures[i].url,
                                      StripSuffix(unique_batch_results[i].title))]]
          /\ seen_urls' = IF o.out = "item" THEN seen_urls \cup { futures[i].url }
                          ELSE seen_urls
    /\ UNCHANGED << pc, api_key, file, existing_news, seen_titles,
                    results, unique_batch_results, new_items, digest, all_news,
                    written, ext_log, fuzzyVars, mergeVars, chunkVars,
                    stepVars >>

\* call i returns or raises (lines 310-338). late records whether the
\* collection loop had by then registered the url or the title of the item.
WorkerFinish(i) ==
    /\ pc = "collect"
    /\ futures[i].st = "running"
    /\ \E o \in EnrichOutcomes(unique_batch_results[i]) :
          futures' = [futures EXCEPT ![i] =
             [@ EXCEPT !.st = "finished", !.out = o.out, !.called = o.called,
                       !.late = Registered(futures[i].url,
                                   StripSuffix(unique_batch_results[i].title))]]
    /\ UNCHANGED << pc, api_key, file, existing_news, seen_urls, seen_titles,
                    results, unique_batch_results, new_items, digest, all_news,
                    written, ext_log, fuzzyVars, mergeVars, chunkVars,
                    stepVars >>

\* one iteration of "for fut in as_completed(futures)" (lines 450-456);
\* fut.result() raises what the call raised, and nothing in run() catches it
Collect(i) ==
    /\ pc = "collect"
    /\ futures[i].st = "finished"
    /\ futures' = [futures EXCEPT ![i].st = "consumed"]
    /\ LET res == MakeItem(unique_batch_results[i], futures[i].url)
       IN  CASE futures[i].out = "raise" ->
                  /\ pc' = "aborted"
                  /\ UNCHANGED << new_items, seen_titles, seen_urls, existing_news >>
             [] futures[i].out = "none" ->
                  /\ UNCHANGED << pc, new_items, seen_titles, seen_urls,
                                  existing_news >>
             [] futures[i].out = "item" ->
                  /\ new_items' = Append(new_items, res)
                  /\ seen_titles' = seen_titles \cup { NormalizeText(res.title_en) }
                  /\ seen_urls' = seen_urls \cup { res.url }
                  /\ existing_news' = Append(existing_news, res)
                  /\ pc' = pc
    /\ UNCHANGED << api_key, file, results, unique_batch_results, digest,
                    all_news, written, ext_log, fuzzyVars, mergeVars, chunkVars,
                    stepVars >>

\* an end of the loop that goes on to the save whether or not there are new
\* items
EndCollectAlwaysSaves ==
    /\ pc = "collect"
    /\ \A i \in DOMAIN futures : futures[i].st = "consumed"
    /\ new_items' = SortDesc(new_items, "urgency")
    /\ digest' = new_items'
    /\ pc' = "reread"
    /\ UNCHANGED << api_key, file, existing_news, seen_urls, seen_titles,
                    results, unique_batch_results, futures, all_news, written,
                    ext_log, fuzzyVars, mergeVars, chunkVars,
                    stepVars >>

\* the loop is over (lines 458-461, 473-474): with new items, sort them by
\* urgency and hand them to the digest; without, end the run
EndCollect ==
    /\ pc = "collect"
    /\ \A i \in DOMAIN futures : futures[i].st = "consumed"
    /\ IF new_items # << >>
       THEN /\ new_items' = SortDesc(new_items, "urgency")
            /\ digest' = new_items'
            /\ pc' = "reread"
       ELSE /\ pc' = "done"
            /\ UNCHANGED << new_items, digest >>
    /\ UNCHANGED << api_key, file, existing_news, seen_urls, seen_titles,
                    results, unique_batch_results, futures, all_news, written,
                    ext_log, fuzzyVars, mergeVars, chunkVars,
                    stepVars >>

\* line 463: all_news = self._load_existing_news()
Reread ==
    /\ pc = "reread"
    /\ all_news' = CorpusAtSave(file, existing_news)
    /\ pc' = "write"
    /\ UNCHANGED << api_key, file, existing_news, seen_urls, seen_titles,
                    results, unique_batch_results, futures, new_items, digest,
                    written, ext_log, fuzzyVars, mergeVars, chunkVars,
                    stepVars >>

\* lines 464-471: append, sort, write the truncated list
Write ==
    /\ pc = "write"
    /\ all_news' = AppendAndSort(all_news, new_items)
    /\ file' = SaveMerge(all_news, new_items)
    /\ written' = TRUE
    /\ pc' = "done"
    /\ UNCHANGED << api_key, existing_news, seen_urls, seen_titles, results,
                    unique_batch_results, futures, new_items, digest, ext_log,
                    fuzzyVars, mergeVars, chunkVars,
                    stepVars >>

\* another process saves article x into news.json while the run is under
\* way, by the same save: re-read, append if the url is new, sort, truncate.
\* The run reads the file at construction and at line 463 only and writes it
\* at line 470 only, so a write at any moment before line 463 acts as one at
\* the end of the collection loop; "write" is between lines 463 and 470.
ExternalWrite(x) ==
    /\ pc \in { "collect", "write" }
    /\ pc = "collect" => \A i \in DOMAIN futures : futures[i].st = "consumed"
    /\ Len(ext_log) < MaxExternal
    /\ \A k \in DOMAIN ext_log : ext_log[k].art # x
    /\ file' = SaveMerge(file, << x >>)
    /\ ext_log' = Append(ext_log,
                    [art |-> x,
                     phase |-> IF pc = "write" THEN "after_reread"
                                               ELSE "before_reread"])
    /\ UNCHANGED << pc, api_key, existing_news, seen_urls, seen_titles, results,
                    unique_batch_results, futures, new_items, digest, all_news,
                    written, fuzzyVars, mergeVars, chunkVars,
                    stepVars >>

Next ==
    \/ Fetch
    \/ FilterAndSubmit
    \/ \E i \in DOMAIN futures : WorkerStart(i)
    \/ \E i \in DOMAIN futures : WorkerFinish(i)
    \/ \E i \in DOMAIN futures : Collect(i)
    \/ EndCollect
    \/ Reread
    \/ Write
    \/ \E x \in ExternalArticles : ExternalWrite(x)

Spec == Init /\ [][Next]_vars

(***************************************************************************)
(* Claims about the run (Spec).                                            *)
(***************************************************************************)
Accepted(i) == futures[i].st = "consumed" /\ futures[i].out = "item"

\* C1: the corpus file had one article per url when the run started (every
\* file of InitialFiles has, and another process's save keeps it so); after
\* run() has written the file, it still has one article per url.
C1_CorpusUrlsUnique ==
    (pc = "done" /\ written) => UniqueUrls(file)

\* C2 as claimed: no call that finishes after the collection loop has
\* registered its url or its normalized title has its result accepted.
C2_NoLateDuplicateAccepted ==
    \A i \in DOMAIN futures : Accepted(i) => ~futures[i].late

\* C2 amended: no call that runs its gate (lines 306-308) after the
\* collection loop has registered its url or its normalized title has its
\* result accepted: it returns nothing.
C2_SameBatchAcceptance ==
    \A i \in DOMAIN futures :
        futures[i].gate_reg =>
            /\ futures[i].st \in { "finished", "consumed" }
            /\ futures[i].out = "none"

\* C2 witness: an item of the batch was accepted and registered, and a call
\* of the same batch that reached its gate later, with the same url or
\* title, has been consumed without a result.
C2_Witness ==
    \E i, j \in DOMAIN futures :
        /\ i # j
        /\ Accepted(i)
        /\ futures[j].gate_reg
        /\ futures[j].st = "consumed"
        /\ futures[j].out = "none"

\* two candidates are fuzzy duplicates of each other, by their titles
\* without the suffix
FuzzyPair(c, d) ==
    IsDuplicateFuzzy(StripSuffix(c.title), << [title |-> StripSuffix(d.title)] >>)

\* C3: after the batch filter no two candidates of unique_batch_results are
\* fuzzy duplicates of each other; of a batch of 3 whose first two items
\* share 5 tokens and whose third is unrelated, none a duplicate of the
\* stored corpus, exactly 2 are kept.
C3_BatchFuzzyFilter ==
    pc \in { "collect", "reread", "write", "done", "aborted" } =>
        /\ \A i, j \in DOMAIN unique_batch_results :
              i # j => ~FuzzyPair(unique_batch_results[i], unique_batch_results[j])
        /\ (/\ Len(results) = 3
            /\ Cardinality(GetTokens(StripSuffix(results[1].title))
                             \cap GetTokens(StripSuffix(results[2].title))) = 5
            /\ ~FuzzyPair(results[3], results[1])
            /\ ~FuzzyPair(results[3], results[2])
            /\ \A k \in 1..3 :
                  ~IsDuplicateFuzzy(StripSuffix(results[k].title), existing_news))
              => Len(unique_batch_results) = 2

\* C8: a failure while enriching one candidate is not fatal to the batch:
\* the run ends with every call's result consumed, and with the accepted
\* articles digested and persisted.
C8_WorkerFailureNotFatal ==
    pc \in { "done", "aborted" } =>
        /\ \A i \in DOMAIN futures : futures[i].st = "consumed"
        /\ new_items # << >> => (digest = new_items /\ written)

\* article x is in the corpus file, or the file is full of articles none of
\* which is older than x
KeptOrDisplaced(x) ==
    \/ x \in Range(file)
    \/ /\ Len(file) = CorpusCap
       /\ \A i \in DOMAIN file : file[i].timestamp >= x.timestamp

\* C9 as claimed: an article another writer added at any point between the
\* run's start and its write of the file is in the file after the run,
\* unless sort-and-cap displaced it.
C9_NoLostUpdateUntilWrite ==
    pc = "done" =>
        \A k \in DOMAIN ext_log : KeptOrDisplaced(ext_log[k].art)

\* C9 amended: an article another writer added at any point between the
\* run's start and its save-time re-read of the file (line 463) is in the
\* file after the run, unless sort-and-cap displaced it.
C9_NoLostUpdate ==
    pc = "done" =>
        \A k \in DOMAIN ext_log :
            ext_log[k].phase = "before_reread" => KeptOrDisplaced(ext_log[k].art)

\* C9 witness: the run has written the file, with a new article in it,
\* after another writer added an article before the re-read, and that
\* article is in the file too.
C9_Witness ==
    /\ pc = "done"
    /\ written
    /\ \E i \in DOMAIN new_items : new_items[i] \in Range(file)
    /\ \E k \in DOMAIN ext_log :
          /\ ext_log[k].phase = "before_reread"
          /\ ext_log[k].art \in Range(file)
          /\ ext_log[k].art \notin Range(existing_news)

(***************************************************************************)
(* Claims about stop words (SpecFuzzy).                                    *)
(***************************************************************************)
\* the words of a title: lower-cased, without punctuation
WordsOf(text) == { CleanWord(text[i]) : i \in DOMAIN text } \ { "" }

\* the stop-word set as the claim lists it
StopWordsWithUpdate == stop_words \cup { "update" }

\* the call compared the title with a pool of one entry, and every word the
\* two titles share is in S
SharesOnly(S) ==
    /\ fz_out \in { "true", "false" }
    /\ Len(fz_pool) = 1
    /\ (WordsOf(fz_title) \cap WordsOf(ExistingTitle(fz_pool[1]))) \subseteq S

\* C11 as claimed: two titles whose only shared words are stop words, "update"
\* among them, are no duplicates of each other, and a title made only of such
\* words has no tokens.
C11_StopWordsWithUpdate ==
    /\ SharesOnly(StopWordsWithUpdate) => fz_out = "false"
    /\ (fz_out # "none" /\ WordsOf(fz_title) \subseteq StopWordsWithUpdate)
          => (GetTokens(fz_title) = {} /\ fz_out = "false")

\* C11 amended: two titles whose only shared words are in the stop-word set
\* of _get_tokens (which has "news" and "report" and not "update") are no
\* duplicates of each other, and a title made only of such words has no
\* tokens.
C11_StopWordsNeverCollide ==
    /\ SharesOnly(stop_words) => fz_out = "false"
    /\ (fz_out # "none" /\ WordsOf(fz_title) \subseteq stop_words)
          => (GetTokens(fz_title) = {} /\ fz_out = "false")

\* C11 witness: the call returned false for two titles that share stop words
\* and nothing else, each with a token of its own.
C11_Witness ==
    /\ SharesOnly(stop_words)
    /\ fz_out = "false"
    /\ WordsOf(fz_title) \cap WordsOf(ExistingTitle(fz_pool[1])) # {}
    /\ GetTokens(fz_title) # {}
    /\ GetTokens(ExistingTitle(fz_pool[1])) # {}

(***************************************************************************)
(* Claims about the order of the digest (Spec).                            *)
(***************************************************************************)
\* the place of an accepted article in the order of acceptance: the
\* collection loop appends each accepted article to existing_news
AcceptedAt(a) == CHOOSE p \in DOMAIN existing_news : existing_news[p] = a

Digested == pc \in { "reread", "write", "done" } /\ digest # << >>

Digits == { "0", "1", "2", "3", "4", "5", "6", "7", "8", "9" }

DigitVal(c) ==
    CASE c = "0" -> 0 [] c = "1" -> 1 [] c = "2" -> 2 [] c = "3" -> 3
      [] c = "4" -> 4 [] c = "5" -> 5 [] c = "6" -> 6 [] c = "7" -> 7
      [] c = "8" -> 8 [] c = "9" -> 9

\* str.strip(): without the blanks at both ends
RECURSIVE StripLeft(_)
StripLeft(cs) ==
    IF cs # << >> /\ Head(cs) = " " THEN StripLeft(Tail(cs)) ELSE cs

RECURSIVE StripRight(_)
StripRight(cs) ==
    IF cs # << >> /\ cs[Len(cs)] = " "
    THEN StripRight(SubSeq(cs, 1, Len(cs) - 1)) ELSE cs

\* the value of a run of digits; "_" between digits is skipped
RECURSIVE DigitsValue(_, _)
DigitsValue(cs, acc) ==
    IF cs = << >> THEN acc
    ELSE IF Head(cs) = "_" THEN DigitsValue(Tail(cs), acc)
    ELSE DigitsValue(Tail(cs), 10 * acc + DigitVal(Head(cs)))

\* digits, with single underscores between digits only
WellFormedDigits(cs) ==
    /\ cs # << >>
    /\ \A i \in DOMAIN cs : cs[i] \in Digits \cup { "_" }
    /\ cs[1] # "_" /\ cs[Len(cs)] # "_"
    /\ \A i \in 1..(Len(cs) - 1) : ~(cs[i] = "_" /\ cs[i + 1] = "_")

\* int(s) for a string: blanks stripped, an optional sign, then digits
IntOfStr(chars) ==
    LET t      == StripRight(StripLeft(chars))
        signed == t # << >> /\ t[1] \in { "+", "-" }
        body   == IF signed THEN Tail(t) ELSE t
    IN  IF WellFormedDigits(body)
        THEN [err |-> "none",
              val |-> IF signed /\ t[1] = "-" THEN 0 - DigitsValue(body, 0)
                      ELSE DigitsValue(body, 0)]
        ELSE [err |-> "ValueError", val |-> 0]

\* int(x): the value, or the exception raised
IntOf(x) ==
    CASE x.kind = "int"   -> [err |-> "none", val |-> x.n]
      [] x.kind = "bool"  -> [err |-> "none", val |-> IF x.b THEN 1 ELSE 0]
      [] x.kind = "float" -> [err |-> "none",
                              val |-> IF x.tenths >= 0 THEN x.tenths \div 10
                                      ELSE 0 - ((0 - x.tenths) \div 10)]
      [] x.kind = "str"   -> IntOfStr(x.chars)
      [] x.kind = "nan"   -> [err |-> "ValueError", val |-> 0]
      [] x.kind = "inf"   -> [err |-> "OverflowError", val |-> 0]
      [] x.kind \in { "null", "list" } -> [err |-> "TypeError", val |-> 0]

\* the coercion with an except clause for ValueError only
CoerceUrgencyValueErrorOnly(entry) ==
    LET r == IntOf(IF entry.kind = "missing"
                   THEN [kind |-> "int", n |-> FallbackUrgency] ELSE entry)
    IN  IF r.err = "none" THEN [raised |-> FALSE, urgency |-> r.val]
        ELSE IF r.err = "ValueError"
             THEN [raised |-> FALSE, urgency |-> FallbackUrgency]
        ELSE [raised |-> TRUE, urgency |-> 0]

\* lines 319-322: the urgency of the record, or the exception that leaves
\* process_item
CoerceUrgency(entry) ==
    LET r == IntOf(IF entry.kind = "missing"
                   THEN [kind |-> "int", n |-> FallbackUrgency] ELSE entry)
    IN  IF r.err = "none" THEN [raised |-> FALSE, urgency |-> r.val]
        ELSE IF r.err \in { "ValueError", "TypeError" }
             THEN [raised |-> FALSE, urgency |-> FallbackUrgency]
        ELSE [raised |-> TRUE, urgency |-> 0]

(***************************************************************************)
(* SpecUrgency: the coercion applied to drawn payload entries.             *)
(***************************************************************************)
UrgencyStrings ==
    { << "h", "i", "g", "h" >>, << "t", "e", "n" >>, << >>, << " " >>,
      << "7" >>, << "0" >>, << "1", "2" >>, << "-", "3" >>, << "+", "8" >>,
      << " ", "9", " " >>, << "7", ".", "5" >>, << "1", "_", "0" >>,
      << "_", "1" >>, << "8", "/", "1", "0" >>, << "-" >> }

UrgencyPayloads ==
    { [kind |-> k] : k \in { "missing", "null", "list", "nan", "inf" } }
        \cup { [kind |-> "int", n |-> n] : n \in (0 - MaxUrgency)..MaxUrgency }
        \cup { [kind |-> "float", tenths |-> t] :
                  t \in { -15, -5, 0, 5, 14, 79, 99, 100, 105, 119 } }
        \cup { [kind |-> "bool", b |-> b] : b \in BOOLEAN }
        \cup { [kind |-> "str", chars |-> cs] : cs \in UrgencyStrings }

InitUrgency ==
    /\ RunIdle /\ FuzzyIdle /\ MergeIdle /\ ChunkIdle /\ RetryIdle /\ SendIdle
    /\ ur_payload \in UrgencyPayloads
    /\ ur_out = << >>

UrgencyStep ==
    /\ ur_payload \in UrgencyPayloads
    /\ ur_out = << >>
    /\ ur_out' = << CoerceUrgency(ur_payload) >>
    /\ UNCHANGED << ur_payload, runVars, fuzzyVars, mergeVars, chunkVars,
                    retryVars, sendVars >>

NextUrgency == UrgencyStep

SpecUrgency == InitUrgency /\ [][NextUrgency]_vars

(***************************************************************************)
(* Claims about the urgency coercion (SpecUrgency).                        *)
(***************************************************************************)
UrgencyReturned == ur_out # << >> /\ ~ur_out[1].raised

\* C13: every record process_item returns has an integer urgency within
\* 1..10, also for a payload urgency of 0, a negative number or a number
\* above 10.
C13_UrgencyInRange ==
    UrgencyReturned => ur_out[1].urgency \in 1..10

\* the characters of a numeral
NumeralChars == Digits \cup { "+", "-", ".", "_", " " }

\* a payload urgency that is missing, null, or a string that is no numeral
NonNumericUrgency ==
    \/ ur_payload.kind \in { "missing", "null" }
    \/ /\ ur_payload.kind = "str"
       /\ \E i \in DOMAIN ur_payload.chars : ur_payload.chars[i] \notin NumeralChars

\* C14: when the payload urgency is non-numeric (such as "high"), null or
\* missing, the record has urgency 3 and no error is raised.
C14_UrgencyFallback ==
    (ur_out # << >> /\ NonNumericUrgency) =>
        ur_out[1] = [raised |-> FALSE, urgency |-> FallbackUrgency]

\* C14 witness: the coercion has run on the string "high" and gave urgency 3.
C14_Witness ==
    /\ ur_out = << [raised |-> FALSE, urgency |-> FallbackUrgency] >>
    /\ ur_payload = [kind |-> "str", chars |-> << "h", "i", "g", "h" >>]

(***************************************************************************)
(* analyze_with_ai (lines 241-297) and lines 313-316 of process_item.      *)
(* What one call to the backend can give:                                  *)
(*   "ok"          status 200, a body that parses, title_fa and summary    *)
(*   "non200"      another status                                          *)
(*   "exception"   the post raises                                         *)
(*   "unparsable"  status 200, a body that does not parse                  *)
(*   "incomplete"  status 200, a parsed body without title_fa or summary   *)
(***************************************************************************)
CallOutcomes == { "ok", "non200", "exception", "unparsable", "incomplete" }

\* the handling that takes a body without title_fa or summary for an answer
AttemptHandlingAcceptsIncomplete(outcome) ==
    CASE outcome \in { "ok", "incomplete" } -> [returns |-> TRUE,  sleeps |-> FALSE]
      [] outcome = "non200"                 -> [returns |-> FALSE, sleeps |-> FALSE]
      [] OTHER                              -> [returns |-> FALSE, sleeps |-> TRUE]

\* one pass of the loop body (lines 267-295): "return data" for a valid
\* answer; the else branch of line 290 only logs; every exception, the
\* ValueError of line 287 among them, is caught at line 293 and followed by
\* time.sleep(2)
AttemptHandling(outcome) ==
    CASE outcome = "ok"     -> [returns |-> TRUE,  sleeps |-> FALSE]
      [] outcome = "non200" -> [returns |-> FALSE, sleeps |-> FALSE]
      [] OTHER              -> [returns |-> FALSE, sleeps |-> TRUE]

CallEvent(outcome) == "call_" \o outcome

CallEvents == { CallEvent(o) : o \in CallOutcomes }

InitRetry ==
    /\ RunIdle /\ FuzzyIdle /\ MergeIdle /\ ChunkIdle /\ UrgencyIdle /\ SendIdle
    /\ ai_pc = "entry"
    /\ ai_in \in [key : BOOLEAN, text : BOOLEAN, source : BOOLEAN]
    /\ attempt = 0
    /\ ai_log = << >>
    /\ ai_ret = "pending"
    /\ pi_out = "pending"

\* lines 242-245: no key, return None; len(full_text) and source_name.lower()
\* raise when the argument is None
AiEnter ==
    /\ ai_pc = "entry"
    /\ IF ~ai_in.key THEN ai_pc' = "returned" /\ ai_ret' = "None"
       ELSE IF ~ai_in.text \/ ~ai_in.source
            THEN ai_pc' = "raised" /\ UNCHANGED ai_ret
       ELSE ai_pc' = "loop" /\ UNCHANGED ai_ret
    /\ UNCHANGED << ai_in, attempt, ai_log, pi_out, runVars, fuzzyVars,
                    mergeVars, chunkVars, urgencyVars, sendVars >>

\* one pass of "for attempt in range(AI_RETRIES)"
AiAttempt(outcome) ==
    /\ ai_pc = "loop"
    /\ attempt < AI_RETRIES
    /\ LET h == AttemptHandling(outcome)
       IN  /\ ai_log' = ai_log \o << CallEvent(outcome) >>
                               \o (IF h.sleeps THEN << "sleep" >> ELSE << >>)
           /\ IF h.returns
              THEN ai_pc' = "returned" /\ ai_ret' = "data"
              ELSE UNCHANGED << ai_pc, ai_ret >>
    /\ attempt' = attempt + 1
    /\ UNCHANGED << ai_in, pi_out, runVars, fuzzyVars, mergeVars, chunkVars,
                    urgencyVars, sendVars >>

\* line 297: the loop is over, return None
AiExhausted ==
    /\ ai_pc = "loop"
    /\ attempt = AI_RETRIES
    /\ ai_pc' = "returned"
    /\ ai_ret' = "None"
    /\ UNCHANGED << ai_in, attempt, ai_log, pi_out, runVars, fuzzyVars,
                    mergeVars, chunkVars, urgencyVars, sendVars >>

\* lines 313-316 of process_item: "if not ai: return None"; an exception of
\* analyze_with_ai leaves process_item too
ProcessAfterAi ==
    /\ ai_pc \in { "returned", "raised" }
    /\ pi_out = "pending"
    /\ pi_out' = IF ai_pc = "raised" THEN "raised"
                 ELSE IF ai_ret = "None" THEN "dropped" ELSE "record"
    /\ UNCHANGED << ai_pc, ai_in, attempt, ai_log, ai_ret, runVars, fuzzyVars,
                    mergeVars, chunkVars, urgencyVars, sendVars >>

NextRetry ==
    \/ AiEnter
    \/ \E o \in CallOutcomes : AiAttempt(o)
    \/ AiExhausted
    \/ ProcessAfterAi

SpecRetry == InitRetry /\ [][NextRetry]_vars

(***************************************************************************)
(* Claims about the retry loop (SpecRetry).                                *)
(***************************************************************************)
Calls == { i \in DOMAIN ai_log : ai_log[i] \in CallEvents }

FailedCalls == { i \in Calls : ai_log[i] # CallEvent("ok") }

\* C15: at most AI_RETRIES calls are made; a non-200 status, an unparsable
\* body and a body without title_fa or summary are failed attempts, after
\* which the loop goes on; the first valid response is returned and no call
\* follows it; after AI_RETRIES failed attempts None is returned; and
\* process_item drops the item when None is returned.
C15_BoundedRetry ==
    /\ Cardinality(Calls) <= AI_RETRIES
    /\ \A i \in Calls : ai_log[i] = CallEvent("ok") => i = Len(ai_log)
    /\ (ai_pc = "returned" /\ ai_ret = "data") <=>
          (ai_log # << >> /\ ai_log[Len(ai_log)] = CallEvent("ok"))
    /\ (ai_pc = "returned" /\ ai_ret = "None" /\ ai_in.key) <=>
          (Cardinality(FailedCalls) = AI_RETRIES /\ attempt = AI_RETRIES
             /\ ai_pc # "loop")
    /\ (ai_pc = "loop" /\ attempt < AI_RETRIES) => ai_ret = "pending"
    /\ pi_out = "dropped" => ai_ret = "None"
    /\ pi_out = "record" => ai_ret = "data"
    /\ (ai_pc = "returned" /\ pi_out # "pending") =>
          (pi_out = "dropped" <=> ai_ret = "None")

\* C15 witness: a non-200 status, an unparsable body and an incomplete body
\* were the three attempts, None was returned and the item dropped.
C15_Witness ==
    /\ ai_log = << "call_non200", "call_unparsable", "sleep",
                   "call_incomplete", "sleep" >>
    /\ ai_pc = "returned"
    /\ ai_ret = "None"
    /\ pi_out = "dropped"

\* C19: between a failed attempt and the next call to the backend there is
\* a delay, whatever the kind of failure.
C19_DelayBetweenAttempts ==
    \A i \in FailedCalls : \A j \in Calls :
        i < j => \E k \in DOMAIN ai_log : i < k /\ k < j /\ ai_log[k] = "sleep"

(***************************************************************************)
(* Claims about a run without an analysis key (Spec).                      *)
(***************************************************************************)
\* call i has gone through the pre-dedup gate: neither its url nor its
\* title is in the SeenSet
PassedGates(i) ==
    /\ futures[i].st = "consumed"
    /\ ~PreDedupGate(futures[i].url, StripSuffix(unique_batch_results[i].title))

\* C16 as claimed: without a key no analysis call is made, and every
\* candidate that passes the dedup gates is accepted with a fallback record,
\* digested and persisted.
C16_NoKeyFallbackAccepted ==
    (~api_key /\ pc = "done") =>
        /\ \A i \in DOMAIN futures : ~futures[i].called
        /\ (\E i \in DOMAIN futures : PassedGates(i)) =>
              (new_items # << >> /\ digest = new_items /\ written)

\* C16 amended: without a key no analysis call is made, every candidate is
\* dropped, and the run ends without an accepted article, without a digest
\* and without a write of the corpus file.
C16_NoKeyDropsAll ==
    ~api_key =>
        /\ \A i \in DOMAIN futures : ~futures[i].called /\ futures[i].out = "none"
        /\ new_items = << >> /\ digest = << >> /\ ~written
        /\ pc \notin { "aborted", "reread", "write" }

\* C16 witness: a run without a key has ended after a candidate that
\* passed the dedup gates was consumed, with nothing accepted.
C16_Witness ==
    /\ ~api_key
    /\ pc = "done"
    /\ \E i \in DOMAIN futures : PassedGates(i)
    /\ new_items = << >>
    /\ ~written

(***************************************************************************)
(* SpecSend: send_digest_to_telegram as run() calls it (line 461), from    *)
(* the configuration test through the chunking loop and the send loop, and *)
(* the save that follows it in run() (lines 463-471).                      *)
(***************************************************************************)
\* what one post to the Telegram API gives: a delivered message, an error
\* status, or an exception (no connection, timeout)
PostResults == { "ok", "http_error", "exception" }

\* a send loop without the try/except around the post
SendHandlingUnguarded(res) == [raises |-> res = "exception"]

\* lines 425-428: try: post; sleep / except: pass. No result of the post
\* leaves the loop.
SendHandling(res) == [raises |-> FALSE]

\* new_items of the run, and the corpus file at the save
SdArticles == { MgArticle("u1", 1), MgArticle("u2", 2) }

SdCorpora == { << >>, << MgArticle("u3", 3), MgArticle("u1", 2) >> }

InitSend ==
    /\ RunIdle /\ FuzzyIdle /\ UrgencyIdle /\ RetryIdle
    /\ sd_cfg \in BOOLEAN
    /\ mg_new \in SeqsUpTo(SdArticles, MaxNew) \ { << >> }
    /\ mg_disk \in SdCorpora
    /\ mg_hist = << mg_disk >>
    /\ ck_header \in HeaderLens
    /\ ck_items \in [1..Len(mg_new) -> ItemSizes]
    /\ ck_next = 1
    /\ current_chunk = [len |-> ck_header, blocks |-> << >>]
    /\ messages_to_send = << >>
    /\ ck_pc = "loop"
    /\ sd_next = 1
    /\ sd_log = << >>

\* line 343: if not token or not chat_id: return
SendSkip ==
    /\ ~sd_cfg
    /\ ck_pc = "loop"
    /\ ck_pc' = "returned"
    /\ UNCHANGED << ck_header, ck_items, ck_next, current_chunk, messages_to_send,
                    runVars, fuzzyVars, mergeVars, stepVars >>

\* one iteration of "for i, msg in enumerate(messages_to_send)"
SendMessage(res) ==
    /\ ck_pc = "done"
    /\ sd_next <= Len(messages_to_send)
    /\ sd_log' = Append(sd_log, [idx |-> sd_next, res |-> res])
    /\ IF SendHandling(res).raises
       THEN ck_pc' = "aborted" /\ UNCHANGED sd_next
       ELSE sd_next' = sd_next + 1 /\ UNCHANGED ck_pc
    /\ UNCHANGED << sd_cfg, ck_header, ck_items, ck_next, current_chunk,
                    messages_to_send, runVars, fuzzyVars, mergeVars,
                    urgencyVars, retryVars >>

\* the send loop is over: send_digest_to_telegram returns
SendReturn ==
    /\ ck_pc = "done"
    /\ sd_next > Len(messages_to_send)
    /\ ck_pc' = "returned"
    /\ UNCHANGED << ck_header, ck_items, ck_next, current_chunk, messages_to_send,
                    runVars, fuzzyVars, mergeVars, stepVars >>

\* lines 463-471 of run(), after send_digest_to_telegram has returned
PersistAfterDigest ==
    /\ ck_pc = "returned"
    /\ mg_disk' = SaveMerge(CorpusAtSave(mg_disk, mg_disk), mg_new)
    /\ mg_hist' = Append(mg_hist, mg_disk')
    /\ ck_pc' = "persisted"
    /\ UNCHANGED << mg_new, ck_header, ck_items, ck_next, current_chunk,
                    messages_to_send, runVars, fuzzyVars, stepVars >>

NextSend ==
    \/ SendSkip
    \/ (sd_cfg /\ ChunkItem)
    \/ (sd_cfg /\ ChunkFlush)
    \/ \E res \in PostResults : SendMessage(res)
    \/ SendReturn
    \/ PersistAfterDigest

SpecSend == InitSend /\ [][NextSend]_vars

(***************************************************************************)
(* Claims about delivery failures (SpecSend).                              *)
(***************************************************************************)
\* C17: the messages are posted in emission order; a post that fails does
\* not stop the loop, so every later message is posted too; and the save of
\* run() follows, with all the newly accepted articles.
C17_DeliveryFailuresIsolated ==
    /\ \A p \in DOMAIN sd_log : sd_log[p].idx = p
    /\ ck_pc # "aborted"
    /\ (sd_cfg /\ ck_pc \in { "returned", "persisted" }) =>
          Len(sd_log) = Len(messages_to_send)
    /\ ck_pc = "persisted" =>
          /\ Len(mg_hist) = 2
          /\ mg_hist[2] = SaveMerge(mg_hist[1], mg_new)

\* C17 witness: the first of two messages failed with an exception, the
\* second was posted after it, and the corpus was saved with a new article.
C17_Witness ==
    /\ ck_pc = "persisted"
    /\ Len(messages_to_send) = 2
    /\ Len(sd_log) = 2
    /\ sd_log[1].res = "exception"
    /\ sd_log[2].idx = 2
    /\ \E i \in DOMAIN mg_new : mg_new[i] \in Range(mg_hist[2])
                                   /\ mg_new[i] \notin Range(mg_hist[1])

(***************************************************************************)
(* Claims about who changes the shared structures (Spec).                  *)
(***************************************************************************)
sharedVars == << seen_urls, seen_titles, existing_news, new_items >>

\* the step of the main thread that follows the loop once the pool is shut
\* down: new_items.sort (line 460)
SortsNewItems ==
    /\ \A i \in DOMAIN futures : futures[i].st = "consumed"
    /\ new_items' = SortDesc(new_items, "urgency")
    /\ UNCHANGED << seen_urls, seen_titles, existing_news >>

C20_NoEmptyMessage ==
    \A m \in DOMAIN messages_to_send : messages_to_send[m].blocks # << >>

(***************************************************************************)
(* Claim about a run that accepts nothing (Spec).                          *)
(***************************************************************************)
\* the run has ended without an accepted article
EndedEmpty == pc = "done" /\ new_items = << >>

\* C21: a run that accepts no new article (an empty batch, every candidate
\* filtered or gated as a duplicate, or every enrichment returning nothing)
\* does not write the corpus file and sends no digest; unless another
\* process wrote the file meanwhile, its content is what the run loaded at
\* its start.
C21_NoOpRun ==
    EndedEmpty =>
        /\ ~written
        /\ digest = << >>
        /\ all_news = << >>
        /\ ext_log = << >> => file = existing_news

\* C21 witness: a run over a corpus of two articles has ended with the file
\* as it was, after the backend was called for a candidate and gave nothing
\* and after another candidate was stopped as a duplicate.
C21_Witness ==
    /\ EndedEmpty
    /\ ~written
    /\ Len(file) = 2
    /\ file = existing_news
    /\ \E i \in DOMAIN futures : futures[i].called /\ futures[i].out = "none"
    /\ Len(unique_batch_results) < Len(results)

=============================================================================
